---- MODULE Spec2Model ----
(***************************************************************************)
(* The intraday straddle backtest of src/backtest.py as a state machine.   *)
(*                                                                         *)
(* Units.  Prices and amounts are integers counted in paise (1/100 rupee,  *)
(* the two decimals that round(..., 2) keeps).  The slippage factors       *)
(* 1.001 and 0.999 are the integers 1001 and 999 over Mille, so the value  *)
(* handed to round() is an exact integer count of 1/1000 paise.  Python's  *)
(* round() works on the binary float: away from a decimal tie it returns   *)
(* the nearest 2-decimal value, and on an exact decimal tie (x.xx5) the    *)
(* float lies on either side, so either neighbour can come out.  round2    *)
(* therefore yields the SET of values round() can return.                  *)
(*                                                                         *)
(* Timestamps are minutes since an epoch: Timestamp(d, m) is minute m of   *)
(* calendar day d.  The index of df is sorted (line 11) and holds each     *)
(* timestamp once.                                                         *)
(***************************************************************************)
EXTENDS Integers, Sequences, FiniteSets, TLC

VARIABLES
    df,               \* the loaded frame: sequence of rows [Date, Open, High, Low, Close]
    Trade_Signal,     \* column df['Trade_Signal']
    Trade_Exit,       \* column df['Trade_Exit']
    Trade_PnL,        \* column df['Trade_PnL']
    Cumulative_PnL,   \* column df['Cumulative_PnL'] (<<>> until line 78 creates it)
    Account_Balance,  \* column df['Account_Balance'] (<<>> until line 79 creates it)
    pc,               \* position in the script
    date,             \* loop variable of the per-day loop (0: not yet bound)
    entry_time, entry_price, buy_stop_loss, sell_stop_loss,
    buy_exit_price, sell_exit_price, exit_time,
    time,             \* loop variable of the scan loop: timestamp of the row in hand
    call              \* a single call of calculate_pnl: its arguments and results

vars == <<df, Trade_Signal, Trade_Exit, Trade_PnL, Cumulative_PnL, Account_Balance,
          pc, date, entry_time, entry_price, buy_stop_loss, sell_stop_loss,
          buy_exit_price, sell_exit_price, exit_time, time, call>>

locals == <<entry_time, entry_price, buy_stop_loss, sell_stop_loss,
            buy_exit_price, sell_exit_price, exit_time, time>>

columns == <<Trade_Signal, Trade_Exit, Trade_PnL>>

(***************************************************************************)
(* Program constants                                                       *)
(***************************************************************************)
Paise == 100
Mille == 1000
LOT_SIZE == 25
INITIAL_CAPITAL == 400000
CHARGES_PER_TRADE == 150
SLIPPAGE_PERCENT == 1
STOP_LOSS_POINTS == 100

MinutesPerDay == 24 * 60
ENTRY_TIME_OF_DAY == 9 * 60 + 16
EXIT_TIME_OF_DAY == 15 * 60 + 15

(***************************************************************************)
(* Bounds of the checked inputs                                            *)
(***************************************************************************)
MaxBars == 3
MaxDays == 2
MaxBarsPerDay == 2

(***************************************************************************)
(* Timestamps                                                              *)
(***************************************************************************)
Timestamp(d, m) == d * MinutesPerDay + m
DateOf(ts) == ts \div MinutesPerDay
TimeOfDay(ts) == ts % MinutesPerDay

Max(a, b) == IF a >= b THEN a ELSE b
Min(a, b) == IF a <= b THEN a ELSE b

(***************************************************************************)
(* calculate_pnl                                                           *)
(***************************************************************************)
round2(n) ==
    LET q == n \div Mille
        r == n % Mille
    IN  IF 2 * r < Mille THEN {q}
        ELSE IF 2 * r > Mille THEN {q + 1}
        ELSE {q, q + 1}

calculate_pnl_same_slippage(entry, exit, direction) ==
    LET entry_price_with_slippage == entry * (Mille + SLIPPAGE_PERCENT)
        exit_price_with_slippage == exit * (Mille - SLIPPAGE_PERCENT)
        pnl == IF direction = "buy"
               THEN (exit_price_with_slippage - entry_price_with_slippage) * LOT_SIZE
               ELSE (entry_price_with_slippage - exit_price_with_slippage) * LOT_SIZE
    IN  round2(pnl - (2 * CHARGES_PER_TRADE) * Paise * Mille)

calculate_pnl_no_charges(entry, exit, direction) ==
    LET entry_price_with_slippage ==
            IF direction = "buy" THEN entry * (Mille + SLIPPAGE_PERCENT)
                                 ELSE entry * (Mille - SLIPPAGE_PERCENT)
        exit_price_with_slippage ==
            IF direction = "buy" THEN exit * (Mille - SLIPPAGE_PERCENT)
                                 ELSE exit * (Mille + SLIPPAGE_PERCENT)
        pnl == IF direction = "buy"
               THEN (exit_price_with_slippage - entry_price_with_slippage) * LOT_SIZE
               ELSE (entry_price_with_slippage - exit_price_with_slippage) * LOT_SIZE
    IN  round2(pnl)

calculate_pnl(entry, exit, direction) ==
    LET entry_price_with_slippage ==
            IF direction = "buy" THEN entry * (Mille + SLIPPAGE_PERCENT)
                                 ELSE entry * (Mille - SLIPPAGE_PERCENT)
        exit_price_with_slippage ==
            IF direction = "buy" THEN exit * (Mille - SLIPPAGE_PERCENT)
                                 ELSE exit * (Mille + SLIPPAGE_PERCENT)
        pnl == IF direction = "buy"
               THEN (exit_price_with_slippage - entry_price_with_slippage) * LOT_SIZE
               ELSE (entry_price_with_slippage - exit_price_with_slippage) * LOT_SIZE
    IN  round2(pnl - (2 * CHARGES_PER_TRADE) * Paise * Mille)

(***************************************************************************)
(* The frame: index lookups, grouping, slicing                             *)
(***************************************************************************)
index == {df[i].Date : i \in DOMAIN df}

loc_same_date(ts) == {i \in DOMAIN df : DateOf(df[i].Date) = DateOf(ts)}

\* df.loc[ts, ...]: the rows whose index label is ts
loc(ts) == {i \in DOMAIN df : df[i].Date = ts}

row_at(ts) == df[CHOOSE i \in DOMAIN df : df[i].Date = ts]

\* the keys of df.groupby(df.index.date), which the loop visits in ascending order
group_keys == {DateOf(df[i].Date) : i \in DOMAIN df}

\* day_data.index for the group of date d
day_index(d) == {ts \in index : DateOf(ts) = d}

entry_time_first_bar(d) ==
    CHOOSE ts \in day_index(d) : \A u \in day_index(d) : ts <= u

\* pd.Timestamp(date).replace(hour=9, minute=16)
entry_time_of(d) == Timestamp(d, ENTRY_TIME_OF_DAY)

slice_from_exclusive(d, from) == {ts \in day_index(d) : ts > from}

\* day_data.loc[from:].index: the labels of the day at or after `from`
slice_from(d, from) == {ts \in day_index(d) : ts >= from}

(***************************************************************************)
(* The body of the scan loop                                               *)
(***************************************************************************)
end_of_day_strict(ts) == TimeOfDay(ts) > EXIT_TIME_OF_DAY

\* time.time() >= pd.Timestamp('15:15').time()
end_of_day(ts) == TimeOfDay(ts) >= EXIT_TIME_OF_DAY

\* row['Low'] <= buy_stop_loss or row['High'] >= sell_stop_loss
stop_loss_hit(row) == row.Low <= buy_stop_loss \/ row.High >= sell_stop_loss

branch_end_of_day_first(row) ==
    IF end_of_day(row.Date) THEN "end_of_day"
    ELSE IF stop_loss_hit(row) THEN "stop_loss"
    ELSE "next"

\* which arm of the if / elif the row takes
branch(row) ==
    IF stop_loss_hit(row) THEN "stop_loss"
    ELSE IF end_of_day(row.Date) THEN "end_of_day"
    ELSE "next"

stop_loss_buy_exit_unclamped(row) == row.Low

stop_loss_buy_exit(row) == Max(row.Low, buy_stop_loss)

stop_loss_sell_exit(row) == Min(row.High, sell_stop_loss)

(***************************************************************************)
(* Aggregation                                                             *)
(***************************************************************************)
RECURSIVE cumsum_exclusive(_)
cumsum_exclusive(col) ==
    IF col = <<>> THEN <<>>
    ELSE LET n == Len(col)
             head == cumsum_exclusive(SubSeq(col, 1, n - 1))
         IN  Append(head, IF n = 1 THEN 0 ELSE head[n - 1] + col[n - 1])

RECURSIVE cumsum(_)
cumsum(col) ==
    IF col = <<>> THEN <<>>
    ELSE LET n == Len(col)
             head == cumsum(SubSeq(col, 1, n - 1))
         IN  Append(head, (IF n = 1 THEN 0 ELSE head[n - 1]) + col[n])

(***************************************************************************)
(* Inputs                                                                  *)
(***************************************************************************)
Bar(o, h, l, c) == [Open |-> o, High |-> h, Low |-> l, Close |-> c]

\* bars around an open of 20000.00: quiet, low below / on the buy stop, high
\* above / on the sell stop, both stops crossed, and a quiet bar opening at
\* 20000.10 (whose legs land on a rounding tie)
Quiet == Bar(2000000, 2005000, 1995000, 2005000)
LowBreach == Bar(2000000, 2003000, 1989000, 1992000)
LowTouch == Bar(2000000, 2003000, 1990000, 1996000)
HighBreach == Bar(2000000, 2012000, 1998000, 2011000)
HighTouch == Bar(2000000, 2010000, 1998000, 2004000)
BothBreach == Bar(2000000, 2012000, 1989000, 2001000)
QuietOdd == Bar(2000010, 2004000, 1996000, 1999990)

AllBars == {Quiet, LowBreach, LowTouch, HighBreach, HighTouch, BothBreach, QuietOdd}
FewBars == {Quiet, HighBreach}

AllTimes == {ENTRY_TIME_OF_DAY - 1, ENTRY_TIME_OF_DAY, 10 * 60,
             EXIT_TIME_OF_DAY, EXIT_TIME_OF_DAY + 1}
FewTimes == {ENTRY_TIME_OF_DAY, 10 * 60, EXIT_TIME_OF_DAY}

RECURSIVE Ascending(_)
Ascending(S) ==
    IF S = {} THEN <<>>
    ELSE LET m == CHOOSE x \in S : \A y \in S : x <= y
         IN  <<m>> \o Ascending(S \ {m})

\* the frames of one calendar day d: 1..maxBars rows at distinct times
DayFrames(d, times, bars, maxBars) ==
    UNION { { [i \in 1..Cardinality(ts) |->
                 [Date |-> Timestamp(d, Ascending(ts)[i]),
                  Open |-> f[i].Open, High |-> f[i].High,
                  Low |-> f[i].Low, Close |-> f[i].Close]]
              : f \in [1..Cardinality(ts) -> bars] }
            : ts \in {s \in SUBSET times : Cardinality(s) \in 1..maxBars} }

RECURSIVE Frames(_, _, _, _)
Frames(days, times, bars, maxBars) ==
    IF days = 0 THEN {<<>>}
    ELSE { s \o dd : s \in Frames(days - 1, times, bars, maxBars),
                     dd \in DayFrames(days, times, bars, maxBars) }

\* one day in full detail, and runs of several days with fewer kinds of bar
InputFrames ==
    Frames(1, AllTimes, AllBars, MaxBars)
    \cup UNION { Frames(n, FewTimes, FewBars, MaxBarsPerDay) : n \in 2..MaxDays }

NoCall == [entry |-> 0, exit |-> 0, buy |-> 0, sell |-> 0, returned |-> FALSE]

(***************************************************************************)
(* Init: lines 7-34, the frame loaded, sorted, and the three columns added *)
(***************************************************************************)
Init ==
    /\ df \in InputFrames
    /\ Trade_Signal = [i \in DOMAIN df |-> FALSE]
    /\ Trade_Exit = [i \in DOMAIN df |-> FALSE]
    /\ Trade_PnL = [i \in DOMAIN df |-> 0]
    /\ Cumulative_PnL = <<>>
    /\ Account_Balance = <<>>
    /\ pc = "groupby"
    /\ date = 0
    /\ entry_time = 0 /\ entry_price = 0
    /\ buy_stop_loss = 0 /\ sell_stop_loss = 0
    /\ buy_exit_price = 0 /\ sell_exit_price = 0
    /\ exit_time = 0 /\ time = 0
    /\ call = NoCall

(***************************************************************************)
(* The per-day loop, lines 37-75                                           *)
(***************************************************************************)
remaining_keys == {d \in group_keys : d > date}
next_key == CHOOSE d \in remaining_keys : \A e \in remaining_keys : d <= e

\* lines 37-43, the test of line 43 false: the day is passed over
SkipDay ==
    /\ pc = "groupby"
    /\ remaining_keys # {}
    /\ entry_time_of(next_key) \notin day_index(next_key)
    /\ date' = next_key
    /\ UNCHANGED <<df, columns, Cumulative_PnL, Account_Balance, pc, locals, call>>

\* lines 37-58, the test of line 43 true: entry taken, the scan loop entered
EnterTrade ==
    /\ pc = "groupby"
    /\ remaining_keys # {}
    /\ LET d == next_key
           et == entry_time_of(d)
       IN  /\ et \in day_index(d)
           /\ date' = d
           /\ entry_time' = et
           /\ entry_price' = row_at(et).Open
           /\ Trade_Signal' = [i \in DOMAIN df |-> IF i \in loc(et) THEN TRUE ELSE Trade_Signal[i]]
           /\ buy_stop_loss' = row_at(et).Open - STOP_LOSS_POINTS * Paise
           /\ sell_stop_loss' = row_at(et).Open + STOP_LOSS_POINTS * Paise
           /\ buy_exit_price' = row_at(et).Open
           /\ sell_exit_price' = row_at(et).Open
           /\ exit_time' = et
           /\ IF slice_from(d, et) = {}
              THEN pc' = "exit" /\ time' = time
              ELSE /\ pc' = "scan"
                   /\ time' = CHOOSE ts \in slice_from(d, et) :
                                  \A u \in slice_from(d, et) : ts <= u
    /\ UNCHANGED <<df, Trade_Exit, Trade_PnL, Cumulative_PnL, Account_Balance, call>>

\* the labels of day_data.loc[entry_time:] that the scan loop has yet to reach
rows_to_come == {ts \in slice_from(date, entry_time) : ts > time}

\* lines 59-63
ScanStopLoss ==
    /\ pc = "scan"
    /\ branch(row_at(time)) = "stop_loss"
    /\ buy_exit_price' = stop_loss_buy_exit(row_at(time))
    /\ sell_exit_price' = stop_loss_sell_exit(row_at(time))
    /\ exit_time' = time
    /\ pc' = "exit"
    /\ UNCHANGED <<df, columns, Cumulative_PnL, Account_Balance, date, entry_time,
                   entry_price, buy_stop_loss, sell_stop_loss, time, call>>

\* lines 64-67
ScanEndOfDay ==
    /\ pc = "scan"
    /\ branch(row_at(time)) = "end_of_day"
    /\ buy_exit_price' = row_at(time).Close
    /\ sell_exit_price' = row_at(time).Close
    /\ exit_time' = time
    /\ pc' = "exit"
    /\ UNCHANGED <<df, columns, Cumulative_PnL, Account_Balance, date, entry_time,
                   entry_price, buy_stop_loss, sell_stop_loss, time, call>>

\* line 58: neither arm taken and the day has a later row, which the loop takes up
ScanNext ==
    /\ pc = "scan"
    /\ branch(row_at(time)) = "next"
    /\ rows_to_come # {}
    /\ time' = CHOOSE ts \in rows_to_come : \A u \in rows_to_come : ts <= u
    /\ UNCHANGED <<df, columns, Cumulative_PnL, Account_Balance, pc, date, entry_time,
                   entry_price, buy_stop_loss, sell_stop_loss, buy_exit_price,
                   sell_exit_price, exit_time, call>>

\* line 58: neither arm taken on the day's last row: the loop ends without a break
ScanExhausted ==
    /\ pc = "scan"
    /\ branch(row_at(time)) = "next"
    /\ rows_to_come = {}
    /\ pc' = "exit"
    /\ UNCHANGED <<df, columns, Cumulative_PnL, Account_Balance, date, locals, call>>

RecordExit_pnl_on_entry_row ==
    /\ pc = "exit"
    /\ \E buy_pnl \in calculate_pnl(entry_price, buy_exit_price, "buy"),
          sell_pnl \in calculate_pnl(entry_price, sell_exit_price, "sell") :
          Trade_PnL' = [i \in DOMAIN df |->
                          IF i \in loc(entry_time) THEN buy_pnl + sell_pnl
                          ELSE Trade_PnL[i]]
    /\ Trade_Exit' = [i \in DOMAIN df |-> IF i \in loc(exit_time) THEN TRUE ELSE Trade_Exit[i]]
    /\ pc' = "groupby"
    /\ UNCHANGED <<df, Trade_Signal, Cumulative_PnL, Account_Balance, date, locals, call>>

\* lines 69-75
RecordExit ==
    /\ pc = "exit"
    /\ \E buy_pnl \in calculate_pnl(entry_price, buy_exit_price, "buy"),
          sell_pnl \in calculate_pnl(entry_price, sell_exit_price, "sell") :
          Trade_PnL' = [i \in DOMAIN df |->
                          IF i \in loc(exit_time) THEN buy_pnl + sell_pnl
                          ELSE Trade_PnL[i]]
    /\ Trade_Exit' = [i \in DOMAIN df |-> IF i \in loc(exit_time) THEN TRUE ELSE Trade_Exit[i]]
    /\ pc' = "groupby"
    /\ UNCHANGED <<df, Trade_Signal, Cumulative_PnL, Account_Balance, date, locals, call>>

\* lines 77-79, once the per-day loop has run out of days
Aggregate ==
    /\ pc = "groupby"
    /\ remaining_keys = {}
    /\ Cumulative_PnL' = cumsum(Trade_PnL)
    /\ Account_Balance' = [i \in DOMAIN df |-> INITIAL_CAPITAL * Paise + cumsum(Trade_PnL)[i]]
    /\ pc' = "done"
    /\ UNCHANGED <<df, columns, date, locals, call>>

Next ==
    \/ SkipDay
    \/ EnterTrade
    \/ ScanStopLoss
    \/ ScanEndOfDay
    \/ ScanNext
    \/ ScanExhausted
    \/ RecordExit
    \/ Aggregate

Spec == Init /\ [][Next]_vars

(***************************************************************************)
(* calculate_pnl on its own: one call per pair of prices, both directions  *)
(***************************************************************************)
\* pairs of prices a few paise apart and pairs around 20000.00 (TLC's integers
\* are 32 bits wide, which bounds 25000 x |exit - entry|)
LowPrices == {1, 10, 20, 39, 40, 995, 5000, 40000}
HighPrices == {1990000, 1995000, 1999990, 2000000, 2000010, 2000015,
               2005000, 2010000, 2012000}
CallPairs == (LowPrices \X LowPrices) \cup (HighPrices \X HighPrices)

InitCall ==
    /\ df = <<>>
    /\ Trade_Signal = <<>> /\ Trade_Exit = <<>> /\ Trade_PnL = <<>>
    /\ Cumulative_PnL = <<>> /\ Account_Balance = <<>>
    /\ pc = "call"
    /\ date = 0
    /\ entry_time = 0 /\ entry_price = 0
    /\ buy_stop_loss = 0 /\ sell_stop_loss = 0
    /\ buy_exit_price = 0 /\ sell_exit_price = 0
    /\ exit_time = 0 /\ time = 0
    /\ \E p \in CallPairs :
          call = [entry |-> p[1], exit |-> p[2], buy |-> 0, sell |-> 0, returned |-> FALSE]

\* lines 20-29, for direction 'buy' and for direction 'sell'
Call ==
    /\ pc = "call"
    /\ ~call.returned
    /\ \E b \in calculate_pnl(call.entry, call.exit, "buy"),
          s \in calculate_pnl(call.entry, call.exit, "sell") :
          call' = [call EXCEPT !.buy = b, !.sell = s, !.returned = TRUE]
    /\ UNCHANGED <<df, columns, Cumulative_PnL, Account_Balance, pc, date, locals>>

NextCall == Call

SpecCall == InitCall /\ [][NextCall]_vars

(***************************************************************************)
(* Vocabulary of the properties: read off the loaded frame alone           *)
(***************************************************************************)
Rows == DOMAIN df
Days == {DateOf(df[i].Date) : i \in Rows}
RowsOf(d) == {i \in Rows : DateOf(df[i].Date) = d}
IsEntryRow(i) == TimeOfDay(df[i].Date) = ENTRY_TIME_OF_DAY
HasEntryBar(d) == \E i \in RowsOf(d) : IsEntryRow(i)
EntryRow(d) == CHOOSE i \in RowsOf(d) : IsEntryRow(i)
BuyStop(d) == df[EntryRow(d)].Open - STOP_LOSS_POINTS * Paise
SellStop(d) == df[EntryRow(d)].Open + STOP_LOSS_POINTS * Paise
Breaches(i, d) == df[i].Low <= BuyStop(d) \/ df[i].High >= SellStop(d)
AtOrAfterCutoff(i) == TimeOfDay(df[i].Date) >= EXIT_TIME_OF_DAY
Triggers(i, d) == Breaches(i, d) \/ AtOrAfterCutoff(i)
Scanned(d) == {i \in RowsOf(d) : i >= EntryRow(d)}
HasTrigger(d) == \E i \in Scanned(d) : Triggers(i, d)
FirstTrigger(d) ==
    CHOOSE i \in Scanned(d) :
        Triggers(i, d) /\ \A j \in Scanned(d) : Triggers(j, d) => i <= j
ExitRow(d) == IF HasTrigger(d) THEN FirstTrigger(d) ELSE EntryRow(d)

\* the exit prices that row i gives a trade of day d closed at it
BuyExitAt(i, d) ==
    IF Breaches(i, d) THEN Max(df[i].Low, BuyStop(d)) ELSE df[i].Close
SellExitAt(i, d) ==
    IF Breaches(i, d) THEN Min(df[i].High, SellStop(d)) ELSE df[i].Close

\* the per-day loop is through with day d
DayOver(d) == d \in Days /\ (d < date \/ (d = date /\ pc \in {"groupby", "done"}))

Touched(i) == Trade_Signal[i] \/ Trade_Exit[i] \/ Trade_PnL[i] # 0

RECURSIVE SumUpTo(_, _)
SumUpTo(col, r) == IF r = 0 THEN 0 ELSE col[r] + SumUpTo(col, r - 1)

Abs(n) == IF n < 0 THEN 0 - n ELSE n

(***************************************************************************)
(* C1                                                                      *)
(***************************************************************************)
\* C1: a day with no 09:16 bar produces no trade: none of its rows ever has
\* Trade_Signal or Trade_Exit set, and each keeps Trade_PnL = 0.
C1_NoEntryBarNoTrade ==
    \A d \in Days :
        ~HasEntryBar(d) =>
            \A i \in RowsOf(d) :
                ~Trade_Signal[i] /\ ~Trade_Exit[i] /\ Trade_PnL[i] = 0

\* a finished run with a day that lacks the 09:16 bar but has a bar at or after
\* 15:15 and a bar whose range is wider than the stop distance, beside a day
\* that did trade
C1_Witness ==
    /\ pc = "done"
    /\ \E d \in Days, e \in Days :
        /\ ~HasEntryBar(d)
        /\ \E i \in RowsOf(d) : AtOrAfterCutoff(i)
        /\ \E i \in RowsOf(d) : df[i].High >= df[i].Open + STOP_LOSS_POINTS * Paise
        /\ HasEntryBar(e)
        /\ \E i \in RowsOf(e) : Trade_Exit[i]

(***************************************************************************)
(* C2                                                                      *)
(***************************************************************************)
\* C2: when the bar the scan stopped at lies at or after 15:15, a breach on
\* that bar decides the exit prices (clamped Low / High); its Close is used
\* only when the bar does not breach.
C2_BreachBeforeCutoff ==
    pc = "exit" =>
        \A x \in RowsOf(date) :
            (df[x].Date = exit_time /\ AtOrAfterCutoff(x)) =>
                IF Breaches(x, date)
                THEN /\ buy_exit_price = Max(df[x].Low, BuyStop(date))
                     /\ sell_exit_price = Min(df[x].High, SellStop(date))
                ELSE /\ buy_exit_price = df[x].Close
                     /\ sell_exit_price = df[x].Close

\* the scan stopped at a bar at or after 15:15 that also breaches, and whose
\* Close is neither exit price
C2_Witness ==
    /\ pc = "exit"
    /\ \E x \in RowsOf(date) :
        /\ df[x].Date = exit_time
        /\ AtOrAfterCutoff(x)
        /\ Breaches(x, date)
        /\ df[x].Close # buy_exit_price
        /\ df[x].Close # sell_exit_price

(***************************************************************************)
(* C3                                                                      *)
(***************************************************************************)
\* C3: a trade closed by a breach at bar x exits the buy leg at
\* max(x.Low, entry - 100) and the sell leg at min(x.High, entry + 100), so
\* neither leg closes beyond its stop.
C3_BreachExitClamped ==
    (pc = "exit" /\ HasTrigger(date) /\ Breaches(FirstTrigger(date), date)) =>
        LET x == FirstTrigger(date) IN
            /\ exit_time = df[x].Date
            /\ buy_exit_price = Max(df[x].Low, df[EntryRow(date)].Open - STOP_LOSS_POINTS * Paise)
            /\ sell_exit_price = Min(df[x].High, df[EntryRow(date)].Open + STOP_LOSS_POINTS * Paise)
            /\ buy_exit_price >= BuyStop(date)
            /\ sell_exit_price <= SellStop(date)

\* entry at 20000.00 and a breach bar with Low 19890.00: the buy leg exits at 19900.00
C3_Witness ==
    /\ pc = "exit"
    /\ df[EntryRow(date)].Open = 20000 * Paise
    /\ HasTrigger(date)
    /\ df[FirstTrigger(date)].Low = 19890 * Paise
    /\ buy_exit_price = 19900 * Paise

(***************************************************************************)
(* C4                                                                      *)
(***************************************************************************)
\* C4: if b is the first bar at or after the entry bar with time-of-day >= 15:15
\* and no bar from the entry bar through b breaches a stop, the trade closes at
\* b with both exit prices equal to b.Close.
C4_CutoffExitAtClose ==
    pc = "exit" =>
        \A b \in Scanned(date) :
            ( /\ AtOrAfterCutoff(b)
              /\ \A j \in Scanned(date) : j < b => ~AtOrAfterCutoff(j)
              /\ \A j \in Scanned(date) : j <= b => ~Breaches(j, date) ) =>
                /\ buy_exit_price = df[b].Close
                /\ sell_exit_price = df[b].Close
                /\ exit_time = df[b].Date

\* a day whose last bar is at exactly 15:15 with Close 20050.00, closed there
C4_Witness ==
    /\ pc = "exit"
    /\ \E b \in Scanned(date) :
        /\ TimeOfDay(df[b].Date) = EXIT_TIME_OF_DAY
        /\ \A j \in RowsOf(date) : j <= b
        /\ b > EntryRow(date)
        /\ df[b].Close = 20050 * Paise
        /\ exit_time = df[b].Date
        /\ buy_exit_price = 20050 * Paise
        /\ sell_exit_price = 20050 * Paise

(***************************************************************************)
(* C5                                                                      *)
(***************************************************************************)
\* C5 as stated: every day with a 09:16 bar ends with exactly two rows
\* changed, the entry row and the exit row, and every other row untouched.
C5_ExactlyTwoRowsMutated ==
    \A d \in Days :
        (DayOver(d) /\ HasEntryBar(d)) =>
            /\ Cardinality({i \in RowsOf(d) : Touched(i)}) = 2
            /\ \A i \in RowsOf(d) : Touched(i) => i \in {EntryRow(d), ExitRow(d)}

\* C5 amended: every day with a 09:16 bar ends with Trade_Signal set on the
\* entry row only, Trade_Exit set on the exit row only, Trade_PnL non-zero on
\* no other row than the exit row; the changed rows are two when the exit bar
\* is a later bar and one when the exit bar is the entry bar itself.
C5_OnlyEntryAndExitRowMutated ==
    \A d \in Days :
        (DayOver(d) /\ HasEntryBar(d)) =>
            /\ \A i \in RowsOf(d) :
                /\ Trade_Signal[i] <=> i = EntryRow(d)
                /\ Trade_Exit[i] <=> i = ExitRow(d)
                /\ Trade_PnL[i] # 0 => i = ExitRow(d)
            /\ {i \in RowsOf(d) : Touched(i)} = {EntryRow(d), ExitRow(d)}
            /\ Cardinality({i \in RowsOf(d) : Touched(i)})
                 = IF ExitRow(d) = EntryRow(d) THEN 1 ELSE 2

\* a finished day of three bars whose entry bar itself breaches
C5_Witness ==
    \E d \in Days :
        /\ DayOver(d)
        /\ HasEntryBar(d)
        /\ Breaches(EntryRow(d), d)
        /\ Cardinality(RowsOf(d)) >= 3
        /\ Trade_Exit[EntryRow(d)]

(***************************************************************************)
(* C6                                                                      *)
(***************************************************************************)
\* C6 as stated: a day with a 09:16 bar and no bar from the entry bar on that
\* breaches or lies at or after 15:15 keeps the default exit values and
\* records a trade whose Trade_PnL is zero.
C6_DefaultExitZeroPnL ==
    /\ (pc = "exit" /\ ~HasTrigger(date)) =>
            /\ buy_exit_price = df[EntryRow(date)].Open
            /\ sell_exit_price = df[EntryRow(date)].Open
            /\ exit_time = df[EntryRow(date)].Date
    /\ \A d \in Days :
        (DayOver(d) /\ HasEntryBar(d) /\ ~HasTrigger(d)) =>
            /\ Trade_Exit[EntryRow(d)]
            /\ Trade_PnL[EntryRow(d)] = 0

\* C6 amended: such a day keeps the default exit values (both exit prices the
\* entry price, exit time the entry time) and records a zero-duration trade on
\* the entry row whose Trade_PnL is the cost of the two legs,
\* -(0.1% x 2 x 25 x 2 x entry_price) - 4 x 150 = -(0.1 x entry_price + 600)
\* up to the rounding of each leg: strictly negative, never zero.
C6_DefaultExitCostsBothLegs ==
    /\ (pc = "exit" /\ ~HasTrigger(date)) =>
            /\ buy_exit_price = df[EntryRow(date)].Open
            /\ sell_exit_price = df[EntryRow(date)].Open
            /\ exit_time = df[EntryRow(date)].Date
    /\ \A d \in Days :
        (DayOver(d) /\ HasEntryBar(d) /\ ~HasTrigger(d)) =>
            /\ Trade_Exit[EntryRow(d)]
            /\ Trade_PnL[EntryRow(d)] < 0
            /\ Abs(10 * Trade_PnL[EntryRow(d)] + df[EntryRow(d)].Open
                   + 4 * CHARGES_PER_TRADE * Paise * 10) <= 10

\* a finished day entered at 20000.00 that never triggered: Trade_PnL -2600.00
C6_Witness ==
    \E d \in Days :
        /\ DayOver(d)
        /\ HasEntryBar(d)
        /\ ~HasTrigger(d)
        /\ Cardinality(Scanned(d)) >= 2
        /\ df[EntryRow(d)].Open = 20000 * Paise
        /\ Trade_PnL[EntryRow(d)] = 0 - 2600 * Paise

(***************************************************************************)
(* C7                                                                      *)
(***************************************************************************)
\* C7: the buy leg and the sell leg of one (entry, exit) pair never cancel:
\* their sum is strictly negative and equals
\* -(2 x 0.001 x 25 x (entry + exit)) - 4 x 150, up to the rounding of each
\* leg to 2 decimals.
C7_LegsDoNotCancel ==
    call.returned =>
        /\ call.buy + call.sell # 0
        /\ call.buy + call.sell < 0
        /\ Abs(20 * (call.buy + call.sell) + (call.entry + call.exit)
               + 20 * 4 * CHARGES_PER_TRADE * Paise) <= 20

\* a returned call on distinct prices whose legs were rounded
C7_Witness ==
    /\ call.returned
    /\ call.entry > call.exit
    /\ (call.entry + call.exit) % 20 # 0

(***************************************************************************)
(* C8                                                                      *)
(***************************************************************************)
\* C8: after the run Cumulative_PnL[r] is the sum of Trade_PnL over the rows
\* up to and including r and Account_Balance[r] = 400000 + Cumulative_PnL[r];
\* the balance moves only at rows with Trade_Exit set, and the final balance is
\* 400000 plus the Trade_PnL of every day that traded.
C8_CumulativeAndBalance ==
    pc = "done" =>
        /\ DOMAIN Cumulative_PnL = Rows
        /\ DOMAIN Account_Balance = Rows
        /\ \A r \in Rows :
            /\ Cumulative_PnL[r] = SumUpTo(Trade_PnL, r)
            /\ Account_Balance[r] = INITIAL_CAPITAL * Paise + Cumulative_PnL[r]
            /\ Account_Balance[r] #
                 (IF r = 1 THEN INITIAL_CAPITAL * Paise ELSE Account_Balance[r - 1])
               => Trade_Exit[r]
        /\ LET traded == {d \in Days : HasEntryBar(d)}
               exits == [k \in 1..Len(Ascending(traded)) |->
                           Trade_PnL[ExitRow(Ascending(traded)[k])]]
           IN  Account_Balance[Len(df)]
                 = INITIAL_CAPITAL * Paise + SumUpTo(exits, Len(exits))

\* a finished run of two trading days, the first trade closed before the
\* first day's last row
C8_Witness ==
    /\ pc = "done"
    /\ \E r \in Rows, t \in Rows :
        /\ r < t
        /\ Trade_Exit[r] /\ Trade_Exit[t]
        /\ ~Trade_Exit[r + 1]
        /\ Account_Balance[r + 1] = Account_Balance[r]
        /\ Account_Balance[t] # Account_Balance[r]

(***************************************************************************)
(* C9                                                                      *)
(***************************************************************************)
\* C9: the scan starts at the entry bar and stops at the first bar that
\* breaches or lies at or after 15:15: no bar the scan has passed triggers, the
\* trade closes at the earliest triggering bar x at or after the entry bar, and
\* exit time, exit prices and the day's Trade_PnL are those given by the entry
\* bar and x alone.
C9_ScanStopsAtFirstTrigger ==
    /\ pc = "scan" =>
        /\ time >= df[EntryRow(date)].Date
        /\ \A j \in Scanned(date) : df[j].Date < time => ~Triggers(j, date)
    /\ (pc = "exit" /\ HasTrigger(date)) =>
        LET x == FirstTrigger(date) IN
            /\ exit_time = df[x].Date
            /\ buy_exit_price = BuyExitAt(x, date)
            /\ sell_exit_price = SellExitAt(x, date)
    /\ \A d \in Days :
        (DayOver(d) /\ HasEntryBar(d) /\ HasTrigger(d)) =>
            LET x == FirstTrigger(d) IN
                /\ Trade_Exit[x]
                /\ \E b \in calculate_pnl(df[EntryRow(d)].Open, BuyExitAt(x, d), "buy"),
                      s \in calculate_pnl(df[EntryRow(d)].Open, SellExitAt(x, d), "sell") :
                      Trade_PnL[x] = b + s

\* a trade closed at a bar after the entry bar, followed by a bar that
\* triggers too and would have given other exit prices
C9_Witness ==
    /\ pc = "exit"
    /\ HasTrigger(date)
    /\ FirstTrigger(date) > EntryRow(date)
    /\ exit_time = df[FirstTrigger(date)].Date
    /\ \E j \in Scanned(date) :
        /\ j > FirstTrigger(date)
        /\ Triggers(j, date)
        /\ BuyExitAt(j, date) # buy_exit_price
        /\ SellExitAt(j, date) # sell_exit_price

(***************************************************************************)
(* C10                                                                     *)
(***************************************************************************)
\* C10: every processed day with a 09:16 bar has exactly one Trade_Signal row,
\* the 09:16 row, and exactly one Trade_Exit row, in the same day and not
\* before the entry; a row without Trade_Exit has Trade_PnL = 0; at the end
\* the Trade_Exit rows, the Trade_Signal rows and the days with a 09:16 bar are
\* equally many.
C10_OneEntryOneExitPerDay ==
    /\ \A d \in Days :
        (DayOver(d) /\ HasEntryBar(d)) =>
            /\ {i \in RowsOf(d) : Trade_Signal[i]} = {EntryRow(d)}
            /\ Cardinality({i \in RowsOf(d) : Trade_Exit[i]}) = 1
            /\ \A i \in RowsOf(d) : Trade_Exit[i] => df[i].Date >= df[EntryRow(d)].Date
    /\ \A i \in Rows : ~Trade_Exit[i] => Trade_PnL[i] = 0
    /\ pc = "done" =>
        /\ Cardinality({i \in Rows : Trade_Exit[i]})
             = Cardinality({d \in Days : HasEntryBar(d)})
        /\ Cardinality({i \in Rows : Trade_Signal[i]})
             = Cardinality({d \in Days : HasEntryBar(d)})

\* a finished run of two days that both traded, one of them closed after its
\* entry bar
C10_Witness ==
    /\ pc = "done"
    /\ Cardinality({d \in Days : HasEntryBar(d)}) >= 2
    /\ \E d \in Days : HasEntryBar(d) /\ ExitRow(d) # EntryRow(d) /\ Trade_Exit[ExitRow(d)]
    /\ \E i \in Rows : ~Touched(i)

====
